---- MODULE Spec2Model ----
(***************************************************************************)
(* History processors of sweagent/agent/history_processors.py.             *)
(*                                                                         *)
(* A history is a sequence of records (HistoryItem).  A processor is a     *)
(* callable object built from its configuration; calling it on a history   *)
(* returns a history or raises.  The agent loop appends records to its     *)
(* history and calls processors on the whole history at every step.        *)
(*                                                                         *)
(* Representation.                                                         *)
(*   text     a sequence of pieces (strings) whose concatenation is the    *)
(*            Python string; a piece is one line of the string, except in  *)
(*            image markdown, which is split into its regex groups.        *)
(*   content  [list, items]: list = FALSE is a plain str held as the one   *)
(*            text item items[1]; list = TRUE is a list of segments.       *)
(*   marker   cache_control is {"type": "ephemeral"} or absent: a BOOLEAN. *)
(*   id       the identity of the record object (its position when the     *)
(*            agent loop appended it); no processor reads it.              *)
(***************************************************************************)
EXTENDS Integers, Sequences, FiniteSets, TLC

VARIABLES
    history,   \* the caller's history: the record objects the agent loop holds
    proc,      \* the processor object of the last call (type and configuration)
    inp,       \* the caller's history as it was when the last call was made
    out        \* what the last call returned: [status, error, hist]

vars == <<history, proc, inp, out>>

(***************************************************************************)
(* Bounds of the model.                                                    *)
(***************************************************************************)
MaxHist == 2
MaxElisionHist == 3
MaxN == 2
MaxPolling == 2
MaxPollingHist == 6
MaxWindowHist == 3
MaxCacheHist == 2
MaxLastN == 2
MaxOffset == 1
MaxKeepLast == 1
MaxImageHist == 1
MaxChunks == 2

(***************************************************************************)
(* Small helpers.                                                          *)
(***************************************************************************)
Max(a, b) == IF a >= b THEN a ELSE b

Min(a, b) == IF a <= b THEN a ELSE b

Indices(s) == [i \in 1..Len(s) |-> i]

(***************************************************************************)
(* Record model (sweagent.types.HistoryItem as this file uses it).         *)
(***************************************************************************)
TextSeg(text, cc) ==
    [type |-> "text", text |-> text, url |-> <<>>, cache_control |-> cc]

ImageSeg(url, cc) ==
    [type |-> "image_url", text |-> <<>>, url |-> url, cache_control |-> cc]

StrContent(text) == [list |-> FALSE, items |-> <<TextSeg(text, FALSE)>>]

ListContent(items) == [list |-> TRUE, items |-> items]

Rec(role, mt, demo, tags, content) ==
    [id |-> 0, role |-> role, message_type |-> mt, is_demo |-> demo,
     tags |-> tags, content |-> content, cache_control |-> FALSE,
     tool_calls |-> {}]

\* What a call returns: a history, or the exception it raised.
Ok(h) == [status |-> "ok", error |-> "", hist |-> h]

Raise(e) == [status |-> "error", error |-> e, hist |-> <<>>]

NoOut == [status |-> "none", error |-> "", hist |-> <<>>]

(***************************************************************************)
(* Processor objects: the pydantic models with their field defaults.       *)
(***************************************************************************)
NoProc ==
    [type |-> "none", n |-> 0, polling |-> 1,
     always_remove_output_for_tags |-> {"remove_output"},
     always_keep_output_for_tags |-> {"keep_output"},
     tags |-> {"keep_output"}, function_names |-> {},
     last_n_messages |-> 2, last_n_messages_offset |-> 0,
     tagged_roles |-> {"user", "tool"},
     remove |-> <<>>, keep_last |-> 0,
     allowed_mime_types |-> {"image/png", "image/jpeg", "image/webp"}]

DefaultHistoryProcessor == [NoProc EXCEPT !.type = "default"]

LastNObservations(n, polling) ==
    [NoProc EXCEPT !.type = "last_n_observations", !.n = n, !.polling = polling]

(***************************************************************************)
(* Utility functions.                                                      *)
(***************************************************************************)
IsStr(entry) == ~entry.content.list

RECURSIVE SumTextLines(_)
SumTextLines(items) ==
    IF items = <<>> THEN 0
    ELSE (IF Head(items).type = "text" THEN Len(Head(items).text) ELSE 0)
         + SumTextLines(Tail(items))

\* (number of text lines, number of images)
_get_content_stats(entry) ==
    IF IsStr(entry)
    THEN <<Len(entry.content.items[1].text), 0>>
    ELSE <<SumTextLines(entry.content.items),
           Cardinality({i \in DOMAIN entry.content.items :
                           entry.content.items[i].type = "image_url"})>>

(***************************************************************************)
(* LastNObservations ("Elision").                                          *)
(***************************************************************************)
observation_indices(h) ==
    SelectSeq(Indices(h),
              LAMBDA idx : h[idx].message_type = "observation" /\ ~h[idx].is_demo)

\* With a fault: the cutoff follows every observation, polling ignored.
last_removed_idx_every_step(h, p) == Max(0, Len(observation_indices(h)) - p.n)

last_removed_idx(h, p) ==
    Max(0, (Len(observation_indices(h)) \div p.polling) * p.polling - p.n)

\* With a fault: the slice starts at the first observation, [0:last_removed_idx].
_get_omit_indices_from_first(h, p) ==
    LET O == observation_indices(h)
    IN  {O[k] : k \in 1..Min(Max(0, (Len(O) \div p.polling) * p.polling - p.n), Len(O))}

\* observation_indices[1:last_removed_idx], as the set `idx not in` tests
_get_omit_indices(h, p) ==
    LET O == observation_indices(h)
    IN  {O[k] : k \in 2..Min(last_removed_idx(h, p), Len(O))}

ElidedContent(entry) ==
    LET stats == _get_content_stats(entry)
        base == "Old environment output: (" \o ToString(stats[1]) \o " lines omitted)"
    IN  StrContent(<<IF stats[2] > 0
                     THEN base \o " (" \o ToString(stats[2]) \o " images omitted)"
                     ELSE base>>)

\* the condition of the `if` in LastNObservations.__call__
KeepsEntry(h, p, idx) ==
    /\ \/ idx \notin _get_omit_indices(h, p)
       \/ h[idx].tags \cap p.always_keep_output_for_tags # {}
    /\ h[idx].tags \cap p.always_remove_output_for_tags = {}

LastNObservationsCall(h, p) ==
    IF \E idx \in DOMAIN h :
          ~KeepsEntry(h, p, idx) /\ h[idx].message_type # "observation"
    THEN Raise("AssertionError")
    ELSE Ok([idx \in DOMAIN h |->
               IF KeepsEntry(h, p, idx) THEN h[idx]
               ELSE [h[idx] EXCEPT !.content = ElidedContent(h[idx])]])

(***************************************************************************)
(* TagToolCallObservations ("Tag-Propagation").  tool_calls is held as the *)
(* set of the calls' function names, the only thing read from it.          *)
(***************************************************************************)
TagToolCallObservations(tags, function_names) ==
    [NoProc EXCEPT !.type = "tag_tool_call_observations",
                   !.tags = tags, !.function_names = function_names]

_add_tags(entry, p) == [entry EXCEPT !.tags = @ \cup p.tags]

_should_add_tags(entry, p) ==
    IF entry.message_type # "action" THEN FALSE
    ELSE IF entry.tool_calls = {} THEN FALSE
    ELSE p.function_names \cap entry.tool_calls # {}

\* The entries are changed in place and the same list is returned.
TagToolCallObservationsCall(h, p) ==
    Ok([i \in DOMAIN h |-> IF _should_add_tags(h[i], p) THEN _add_tags(h[i], p) ELSE h[i]])

(***************************************************************************)
(* ClosedWindowHistoryProcessor ("Window-Collapse").  The two regular      *)
(* expressions are read line by line: a match of _pattern is one whole     *)
(* line that starts with digits and a colon; _file_pattern matches inside  *)
(* one line and its group is the file of the window.  The lines of the     *)
(* model are the vocabulary below.                                         *)
(***************************************************************************)
ClosedWindowHistoryProcessor == [NoProc EXCEPT !.type = "closed_window"]

HeaderA == "[File: a.py (20 lines total)]"

HeaderB == "[File: b.py (10 lines total)]"

\* _pattern = ^(\d+)\:.*?(\n|$), MULTILINE
MatchesPattern(line) == line \in {"1:import os", "2:import re", "3:x = 1"}

\* _file_pattern = \[File:\s+(.*)\s+\(\d+\s+lines\ total\)\]; "" is no match
FilePatternGroup(line) ==
    CASE line = HeaderA -> "a.py"
      [] line = HeaderB -> "b.py"
      [] OTHER -> ""

\* With a fault: only the first matched line is replaced.
OutdatedWindowFirstLine(text, matches) ==
    SubSeq(text, 1, matches[1] - 1)
    \o <<"Outdated window with " \o ToString(Len(matches)) \o " lines omitted...">>
    \o SubSeq(text, matches[1] + 1, Len(text))

OutdatedWindow(text, matches) ==
    SubSeq(text, 1, matches[1] - 1)
    \o <<"Outdated window with " \o ToString(Len(matches)) \o " lines omitted...">>
    \o SubSeq(text, matches[Len(matches)] + 1, Len(text))

\* The loop over reversed(history) from entry i down, with the files seen so
\* far; the value is new_history reversed back.
RECURSIVE ClosedWindowScan(_, _, _)
ClosedWindowScan(h, i, windows) ==
    IF i = 0 THEN <<>>
    ELSE
    LET entry == h[i]
        text == entry.content.items[1].text
        matches == SelectSeq(Indices(text), LAMBDA k : MatchesPattern(text[k]))
        file_matches == SelectSeq(Indices(text), LAMBDA k : FilePatternGroup(text[k]) # "")
        file == FilePatternGroup(text[file_matches[1]])
    IN  IF entry.role # "user" THEN ClosedWindowScan(h, i - 1, windows) \o <<entry>>
        ELSE IF entry.is_demo THEN ClosedWindowScan(h, i - 1, windows) \o <<entry>>
        ELSE IF Len(matches) >= 1
        THEN IF file_matches = <<>>
             THEN ClosedWindowScan(h, i - 1, windows)   \* `continue`: no append
             ELSE ClosedWindowScan(h, i - 1, windows \cup {file})
                  \o <<IF file \in windows
                       THEN [entry EXCEPT !.content = StrContent(OutdatedWindow(text, matches))]
                       ELSE entry>>
        ELSE ClosedWindowScan(h, i - 1, windows) \o <<entry>>

\* finditer on a list raises TypeError
ClosedWindowCall(h) ==
    IF \E i \in DOMAIN h : h[i].role = "user" /\ ~h[i].is_demo /\ ~IsStr(h[i])
    THEN Raise("TypeError")
    ELSE Ok(ClosedWindowScan(h, Len(h), {}))

(***************************************************************************)
(* CacheControlHistoryProcessor ("Cache-Control").  A list content is not  *)
(* empty (content[0] is read).                                             *)
(***************************************************************************)
CacheControlHistoryProcessor(last_n_messages, last_n_messages_offset, tagged_roles) ==
    [NoProc EXCEPT !.type = "cache_control",
                   !.last_n_messages = last_n_messages,
                   !.last_n_messages_offset = last_n_messages_offset,
                   !.tagged_roles = tagged_roles]

\* on a str; on a list see ProcessEntryRaises
_get_content_text(entry) == entry.content.items[1].text

\* With a fault: only the marker of the record is cleared, not those of its segments.
_clear_cache_control_record_only(entry) == [entry EXCEPT !.cache_control = FALSE]

_clear_cache_control(entry) ==
    [entry EXCEPT
        !.content.items = IF entry.content.list
                          THEN [k \in DOMAIN @ |-> [@[k] EXCEPT !.cache_control = FALSE]]
                          ELSE @,
        !.cache_control = FALSE]

\* With a fault: a content that is already a list gets no marker.
_set_cache_control_str_only(entry) ==
    IF ~entry.content.list
    THEN [entry EXCEPT !.content = ListContent(<<TextSeg(entry.content.items[1].text, TRUE)>>)]
    ELSE entry

_set_cache_control(entry) ==
    LET marked ==
            IF ~entry.content.list
            THEN [entry EXCEPT !.content =
                     ListContent(<<TextSeg(_get_content_text(entry), TRUE)>>)]
            ELSE [entry EXCEPT !.content.items[1].cache_control = TRUE]
    IN  IF marked.role = "tool"
        THEN [marked EXCEPT !.content.items[1].cache_control = FALSE,
                            !.cache_control = TRUE]
        ELSE marked

\* the condition of the `if` in CacheControlHistoryProcessor.__call__
TagsEntry(entry, i_entry, n_tagged, p) ==
    /\ n_tagged < p.last_n_messages
    /\ entry.role \in p.tagged_roles
    /\ i_entry >= p.last_n_messages_offset

\* The loop over reversed(history) from entry i down; the value is
\* new_history reversed back.
RECURSIVE CacheControlScan(_, _, _, _)
CacheControlScan(h, i, n_tagged, p) ==
    IF i = 0 THEN <<>>
    ELSE
    LET cleared == _clear_cache_control(h[i])
        tag == TagsEntry(cleared, Len(h) - i, n_tagged, p)
    IN  CacheControlScan(h, i - 1, IF tag THEN n_tagged + 1 ELSE n_tagged, p)
        \o <<IF tag THEN _set_cache_control(cleared) ELSE cleared>>

\* The entries are changed in place; the returned list holds the same entries.
CacheControlCall(h, p) == Ok(CacheControlScan(h, Len(h), 0, p))

(***************************************************************************)
(* RemoveRegex ("Regex-Redaction").  A pattern of the model is             *)
(* [open, close], the regular expression open.*close under re.DOTALL: its  *)
(* one match runs from the first piece `open` to the last piece `close`    *)
(* after it.                                                               *)
(***************************************************************************)
RemoveRegex(remove, keep_last) ==
    [NoProc EXCEPT !.type = "remove_regex", !.remove = remove, !.keep_last = keep_last]

DiffPattern == [open |-> "<diff>", close |-> "</diff>"]

\* re.sub(pattern, "", text, flags=re.DOTALL)
ReSub(pattern, text) ==
    LET opens == {k \in DOMAIN text : text[k] = pattern.open}
        first == CHOOSE k \in opens : \A j \in opens : k <= j
        closes == {k \in DOMAIN text : text[k] = pattern.close /\ k > first}
        last == CHOOSE k \in closes : \A j \in closes : k >= j
    IN  IF opens = {} THEN text
        ELSE IF closes = {} THEN text
        ELSE SubSeq(text, 1, first - 1) \o SubSeq(text, last + 1, Len(text))

RECURSIVE ReSubAll(_, _)
ReSubAll(patterns, text) ==
    IF patterns = <<>> THEN text
    ELSE ReSubAll(Tail(patterns), ReSub(Head(patterns), text))

RemoveFromEntry(entry, p) ==
    [entry EXCEPT !.content.items =
        [k \in DOMAIN @ |->
            IF @[k].type = "text"
            THEN [@[k] EXCEPT !.text = ReSubAll(p.remove, @)]
            ELSE @[k]]]

RemoveRegexCall(h, p) ==
    Ok([i \in DOMAIN h |->
          IF Len(h) - i < p.keep_last THEN h[i] ELSE RemoveFromEntry(h[i], p)])

(***************************************************************************)
(* ImageParsingHistoryProcessor ("Image-Segmentation").  An image in       *)
(* markdown is the eight pieces                                            *)
(*     "![" alt "](" "data:" mime ";base64," payload ")"                   *)
(* and _pattern matches exactly where these stand in a row; its groups are *)
(* markdown_prefix (four pieces), alt_text, mime_type, base64_data and     *)
(* markdown_suffix.  A url is held as the pieces of the formatted string.  *)
(***************************************************************************)
ImageParsingHistoryProcessor(allowed_mime_types) ==
    [NoProc EXCEPT !.type = "image_parsing", !.allowed_mime_types = allowed_mime_types]

Delimiters == {"![", "](", "data:", ";base64,", ")"}

\* _pattern = (!\[([^\]]*)\]\(data:)([^;]+);base64,([^)]+)(\)) matches at k
MatchAt(text, k) ==
    /\ k + 7 <= Len(text)
    /\ text[k] = "!["
    /\ text[k + 1] \notin Delimiters
    /\ text[k + 2] = "]("
    /\ text[k + 3] = "data:"
    /\ text[k + 4] \notin Delimiters
    /\ text[k + 5] = ";base64,"
    /\ text[k + 6] \notin Delimiters
    /\ text[k + 7] = ")"

\* With a fault: text is never merged into the last text segment.
add_text_no_merge(segments, text) ==
    IF text # <<>> THEN Append(segments, TextSeg(text, FALSE)) ELSE segments

\* add_text, the local function of _parse_images
add_text(segments, text) ==
    IF text # <<>> /\ segments # <<>> /\ segments[Len(segments)].type = "text"
    THEN [segments EXCEPT ![Len(segments)].text = @ \o text]
    ELSE IF text # <<>> THEN Append(segments, TextSeg(text, FALSE))
    ELSE segments

DataUrl(mime_type, base64_data) == <<"data:", mime_type, ";base64,", base64_data>>

NormalizeMime(mime_type) == IF mime_type = "image/jpg" THEN "image/jpeg" ELSE mime_type

\* The loop over _pattern.finditer(content): k is where the search stands.
RECURSIVE ParseScan(_, _, _, _, _, _)
ParseScan(text, k, last_end, segments, has_images, p) ==
    IF k > Len(text)
    THEN [segments |-> add_text(segments, SubSeq(text, last_end + 1, Len(text))),
          has_images |-> has_images]
    ELSE IF MatchAt(text, k)
    THEN LET before == add_text(segments, SubSeq(text, last_end + 1, k - 1))
             mime_type == NormalizeMime(text[k + 4])
         IN  IF mime_type \in p.allowed_mime_types
             THEN ParseScan(text, k + 8, k + 7,
                      add_text(Append(add_text(before, SubSeq(text, k, k + 3)),
                                     ImageSeg(DataUrl(mime_type, text[k + 6]), FALSE)),
                              <<text[k + 7]>>),
                      TRUE, p)
             ELSE ParseScan(text, k + 8, k + 7,
                      add_text(before, SubSeq(text, k, k + 7)), has_images, p)
    ELSE ParseScan(text, k + 1, last_end, segments, has_images, p)

_parse_images(text, p) ==
    LET r == ParseScan(text, 1, 0, <<>>, FALSE, p)
    IN  IF r.has_images THEN r.segments ELSE <<TextSeg(text, FALSE)>>

\* _get_content_text raises on a list that is not one text segment
ProcessEntryRaises(entry) ==
    /\ entry.role \in {"user", "tool"}
    /\ entry.content.list
    /\ \/ Len(entry.content.items) # 1
       \/ entry.content.items[1].type # "text"

_process_entry(entry, p) ==
    IF entry.role \notin {"user", "tool"} THEN entry
    ELSE LET segments == _parse_images(_get_content_text(entry), p)
         IN  IF \E k \in DOMAIN segments : segments[k].type = "image_url"
             THEN [entry EXCEPT !.content = ListContent(segments)]
             ELSE entry

ImageParsingCall(h, p) ==
    LET raising == {i \in DOMAIN h : ProcessEntryRaises(h[i])}
        first == CHOOSE i \in raising : \A j \in raising : i <= j
    IN  IF raising # {}
        THEN Raise(IF Len(h[first].content.items) # 1
                   THEN "AssertionError" ELSE "KeyError")
        ELSE Ok([i \in DOMAIN h |-> _process_entry(h[i], p)])

(***************************************************************************)
(* The agent loop and the calls.                                           *)
(***************************************************************************)
Init ==
    /\ history = <<>>
    /\ proc = NoProc
    /\ inp = <<>>
    /\ out = NoOut

\* The agent loop appends a record; the messages of the last step are gone.
AppendFrom(U, bound) ==
    /\ Len(history) < bound
    /\ \E r \in U :
          history' = Append(history, [r EXCEPT !.id = Len(history) + 1])
    /\ proc' = NoProc
    /\ inp' = <<>>
    /\ out' = NoOut

\* A call that builds new records (or raises) and leaves the caller's alone.
Returns(p, result) ==
    /\ proc' = p
    /\ inp' = history
    /\ out' = result
    /\ UNCHANGED history

\* A call that changes the caller's records in place and returns them.
ChangesInPlace(p, result) ==
    /\ proc' = p
    /\ inp' = history
    /\ out' = result
    /\ history' = result.hist

CallDefault == Returns(DefaultHistoryProcessor, Ok(history))

CallLastNObservations ==
    \E n \in 1..MaxN, polling \in 1..MaxPolling :
        LET p == LastNObservations(n, polling)
        IN  Returns(p, LastNObservationsCall(history, p))

CallTagToolCallObservations ==
    \E tags \in {{"keep_output"}, {"remove_output"}},
       function_names \in {{"edit"}, {"submit"}} :
        LET p == TagToolCallObservations(tags, function_names)
        IN  ChangesInPlace(p, TagToolCallObservationsCall(history, p))

CallClosedWindow ==
    Returns(ClosedWindowHistoryProcessor, ClosedWindowCall(history))

CallCacheControl ==
    \E last_n_messages \in (0 - 1)..MaxLastN,
       last_n_messages_offset \in 0..MaxOffset,
       tagged_roles \in {{"user", "tool"}, {"assistant"}} :
        LET p == CacheControlHistoryProcessor(last_n_messages,
                                              last_n_messages_offset, tagged_roles)
        IN  ChangesInPlace(p, CacheControlCall(history, p))

CallRemoveRegex ==
    \E keep_last \in 0..MaxKeepLast :
        LET p == RemoveRegex(<<DiffPattern>>, keep_last)
        IN  Returns(p, RemoveRegexCall(history, p))

CallImageParsing ==
    \E allowed_mime_types \in {NoProc.allowed_mime_types, {"image/png"}} :
        LET p == ImageParsingHistoryProcessor(allowed_mime_types)
        IN  Returns(p, ImageParsingCall(history, p))

(***************************************************************************)
(* The image markdown of the model.                                        *)
(***************************************************************************)
Markdown(mime_type) ==
    <<"![", "shot", "](", "data:", mime_type, ";base64,", "iVBOR", ")">>

(***************************************************************************)
(* Spec: every processor, on the histories the agent loop builds from a    *)
(* few records of each kind.                                               *)
(***************************************************************************)
WindowA == <<"$ open a.py", HeaderA, "1:import os", "2:import re", "(18 more lines)">>

Records ==
    { Rec("user", "observation", FALSE, {}, StrContent(WindowA)),
      Rec("user", "observation", FALSE, {}, StrContent(<<"1:import os", "2:import re">>)),
      Rec("user", "observation", TRUE, {"remove_output"}, StrContent(<<"demo out">>)),
      [Rec("assistant", "action", FALSE, {}, StrContent(<<"edit 1:2">>))
          EXCEPT !.tool_calls = {"edit"}],
      Rec("tool", "observation", FALSE, {},
          ListContent(<<TextSeg(<<"page">>, FALSE),
                        ImageSeg(DataUrl("image/png", "iVBOR"), FALSE)>>)),
      Rec("user", "observation", FALSE, {},
          StrContent(<<"before", "<diff>", "X", "Y", "</diff>", "after">>)),
      Rec("user", "observation", FALSE, {},
          StrContent(<<"see ">> \o Markdown("image/jpg"))) }

Next ==
    \/ AppendFrom(Records, MaxHist)
    \/ CallDefault
    \/ CallLastNObservations
    \/ CallTagToolCallObservations
    \/ CallClosedWindow
    \/ CallCacheControl
    \/ CallRemoveRegex
    \/ CallImageParsing

Spec == Init /\ [][Next]_vars

(***************************************************************************)
(* SpecElision: LastNObservations over every tagging of observations,      *)
(* demo observations and actions.                                          *)
(***************************************************************************)
ElisionTagSets == SUBSET {"keep_output", "remove_output"}

ElisionRecords ==
    {Rec("user", "observation", FALSE, t, StrContent(<<"out 1", "out 2">>)) :
        t \in ElisionTagSets}
    \cup { Rec("user", "observation", TRUE, {}, StrContent(<<"demo out">>)),
           Rec("assistant", "action", FALSE, {}, StrContent(<<"ls">>)),
           Rec("assistant", "action", FALSE, {"remove_output"}, StrContent(<<"ls">>)) }

NextElision ==
    \/ AppendFrom(ElisionRecords, MaxElisionHist)
    \/ CallLastNObservations

SpecElision == Init /\ [][NextElision]_vars

(***************************************************************************)
(* SpecPolling: one LastNObservations object, called at every step of the  *)
(* agent loop on the history grown by one untagged record.                 *)
(***************************************************************************)
PollingRecords ==
    { Rec("user", "observation", FALSE, {}, StrContent(<<"out 1", "out 2">>)),
      Rec("user", "observation", TRUE, {}, StrContent(<<"demo out">>)),
      Rec("assistant", "action", FALSE, {}, StrContent(<<"ls">>)) }

InitPolling ==
    /\ history = <<>>
    /\ proc \in {LastNObservations(n, polling) : n \in 1..MaxN, polling \in 1..MaxPolling}
    /\ inp = <<>>
    /\ out = NoOut

AgentStep ==
    /\ Len(history) < MaxPollingHist
    /\ \E r \in PollingRecords :
          LET h == Append(history, [r EXCEPT !.id = Len(history) + 1])
          IN  /\ history' = h
              /\ inp' = h
              /\ out' = LastNObservationsCall(h, proc)
    /\ UNCHANGED proc

SpecPolling == InitPolling /\ [][AgentStep]_vars

(***************************************************************************)
(* SpecWindow: ClosedWindowHistoryProcessor over windows of two files,     *)
(* numbered lines without a file line, plain output, demos, other roles,   *)
(* a list content.                                                         *)
(***************************************************************************)
WindowTexts ==
    { WindowA,
      <<HeaderA, "2:import re", "3:x = 1">>,
      <<HeaderB, "1:import os">>,
      <<"1:import os", "2:import re">>,
      <<"1:import os", HeaderA, "3:x = 1", "end">>,
      <<"ls output">> }

WindowRecords ==
    {Rec("user", "observation", FALSE, {}, StrContent(t)) : t \in WindowTexts}
    \cup { Rec("user", "observation", TRUE, {}, StrContent(WindowA)),
           Rec("assistant", "action", FALSE, {}, StrContent(WindowA)),
           Rec("user", "observation", FALSE, {}, ListContent(<<TextSeg(WindowA, FALSE)>>)) }

NextWindow ==
    \/ AppendFrom(WindowRecords, MaxWindowHist)
    \/ CallClosedWindow

SpecWindow == Init /\ [][NextWindow]_vars

(***************************************************************************)
(* SpecCache: CacheControlHistoryProcessor over str and list contents of   *)
(* every role, with and without markers already set.                       *)
(***************************************************************************)
CacheRecords ==
    { Rec(role, "observation", FALSE, {}, StrContent(<<"out">>)) :
        role \in {"user", "tool", "assistant"} }
    \cup { [Rec(role, "observation", FALSE, {},
                ListContent(<<TextSeg(<<"a">>, TRUE), TextSeg(<<"b">>, TRUE)>>))
               EXCEPT !.cache_control = TRUE] :
             role \in {"user", "tool", "assistant"} }

NextCache ==
    \/ AppendFrom(CacheRecords, MaxCacheHist)
    \/ CallCacheControl

SpecCache == Init /\ [][NextCache]_vars

(***************************************************************************)
(* SpecImage: ImageParsingHistoryProcessor over str contents made of plain *)
(* text and images of allowed and other MIME types.                        *)
(***************************************************************************)
Chunks ==
    { <<"see ">>, Markdown("image/png"), Markdown("image/jpg"), Markdown("image/gif") }

RECURSIVE ImageTexts(_)
ImageTexts(n) ==
    IF n = 0 THEN {<<>>}
    ELSE ImageTexts(n - 1) \cup {t \o c : t \in ImageTexts(n - 1), c \in Chunks}

ImageRecords ==
    {Rec(role, "observation", FALSE, {}, StrContent(t)) :
        role \in {"user", "tool", "assistant"}, t \in ImageTexts(MaxChunks)}

NextImage ==
    \/ AppendFrom(ImageRecords, MaxImageHist)
    \/ CallImageParsing

SpecImage == Init /\ [][NextImage]_vars

(***************************************************************************)
(* Properties.                                                             *)
(***************************************************************************)
Called(type) == proc.type = type /\ out.status = "ok"

TextOf(r) == r.content.items[1].text

Carries(r) ==
    r.cache_control \/ \E k \in DOMAIN r.content.items : r.content.items[k].cache_control

\* --- C1 -----------------------------------------------------------------
HasNumberedLines(r) == \E k \in DOMAIN TextOf(r) : MatchesPattern(TextOf(r)[k])

HasFileLine(r) == \E k \in DOMAIN TextOf(r) : FilePatternGroup(TextOf(r)[k]) # ""

\* C1: no processor deletes or reorders records: the output has as many
\* records as the input and its i-th record is the (possibly rewritten) i-th
\* input record; in ClosedWindowHistoryProcessor a non-demo user record with
\* numbered lines and no file line comes out unchanged at its position.
C1_RecordsKeptInOrder ==
    out.status = "ok" =>
        /\ Len(out.hist) = Len(inp)
        /\ \A i \in DOMAIN inp : out.hist[i].id = inp[i].id
        /\ proc.type = "closed_window" =>
              \A i \in DOMAIN inp :
                  (/\ inp[i].role = "user" /\ ~inp[i].is_demo
                   /\ HasNumberedLines(inp[i]) /\ ~HasFileLine(inp[i]))
                  => out.hist[i] = inp[i]

\* --- C2 -----------------------------------------------------------------
IsObservation(r) == r.message_type = "observation" /\ ~r.is_demo

HasObservation(h) == \E i \in DOMAIN h : IsObservation(h[i])

FirstObservation(h) ==
    CHOOSE i \in DOMAIN h : IsObservation(h[i]) /\ \A j \in 1..(i - 1) : ~IsObservation(h[j])

\* C2 as claimed: whatever the tags are, the first non-demo observation has
\* the same content in the output of LastNObservations as in the input.
C2_FirstObservationKeptAnyTags ==
    (Called("last_n_observations") /\ HasObservation(inp)) =>
        out.hist[FirstObservation(inp)].content = inp[FirstObservation(inp)].content

\* C2 as amended: the first non-demo observation has the same content in the
\* output of LastNObservations as in the input unless it carries a tag of
\* always_remove_output_for_tags.
C2_FirstObservationKept ==
    (/\ Called("last_n_observations") /\ HasObservation(inp)
     /\ inp[FirstObservation(inp)].tags \cap proc.always_remove_output_for_tags = {})
    => out.hist[FirstObservation(inp)].content = inp[FirstObservation(inp)].content

\* The first observation is untagged and a later untagged observation was
\* elided for its age.
C2_Witness ==
    /\ Called("last_n_observations") /\ HasObservation(inp)
    /\ inp[FirstObservation(inp)].tags = {}
    /\ \E i \in DOMAIN inp :
          /\ i > FirstObservation(inp) /\ inp[i].tags = {}
          /\ out.hist[i].content # inp[i].content

\* --- C3 -----------------------------------------------------------------
\* C3: every record with is_demo = true comes out of LastNObservations and of
\* ClosedWindowHistoryProcessor with all its fields equal to the input.
C3_DemoRecordsImmutable ==
    (Called("last_n_observations") \/ Called("closed_window")) =>
        \A i \in DOMAIN inp :
            inp[i].is_demo => \E j \in DOMAIN out.hist : out.hist[j] = inp[i]

\* --- C4 -----------------------------------------------------------------
\* C4: after a call of any processor the caller's history and every record
\* in it are what they were before the call.
C4_InputNotMutated == out.status # "none" => history = inp

\* --- C5 -----------------------------------------------------------------
\* C5: CacheControlHistoryProcessor called on its own result returns that
\* result again: the same markers on records and segments, the same content.
C5_CacheControlIdempotent ==
    Called("cache_control") => CacheControlCall(out.hist, proc) = out

\* The first call turned a str into a marked list and cleared a stale marker.
C5_Witness ==
    /\ Called("cache_control")
    /\ \E i \in DOMAIN inp : IsStr(inp[i]) /\ ~IsStr(out.hist[i])
    /\ \E i \in DOMAIN inp : Carries(inp[i]) /\ ~Carries(out.hist[i])

\* --- C6 -----------------------------------------------------------------
Eligible(i) ==
    /\ inp[i].role \in proc.tagged_roles
    /\ Len(inp) - i >= proc.last_n_messages_offset

\* among the newest min(last_n_messages, number of eligible) eligible records
AmongNewestEligible(i) ==
    /\ Eligible(i)
    /\ Cardinality({j \in (i + 1)..Len(inp) : Eligible(j)}) < proc.last_n_messages

\* C6: after CacheControlHistoryProcessor the records that carry a marker are
\* exactly the newest min(last_n_messages, number of eligible) eligible ones;
\* a marked tool record carries it on the record and not on its first
\* segment, any other marked record on its first segment and not on the
\* record; with last_n_messages <= 0 nothing carries a marker.
C6_MarkersOnNewestEligible ==
    Called("cache_control") =>
        /\ Len(out.hist) = Len(inp)
        /\ \A i \in DOMAIN inp :
              LET r == out.hist[i]
              IN  /\ Carries(r) <=> AmongNewestEligible(i)
                  /\ AmongNewestEligible(i) =>
                        IF r.role = "tool"
                        THEN r.cache_control /\ ~r.content.items[1].cache_control
                        ELSE r.content.items[1].cache_control /\ ~r.cache_control
        /\ proc.last_n_messages <= 0 => \A i \in DOMAIN inp : ~Carries(out.hist[i])

\* More eligible records than last_n_messages: the older one had a stale
\* marker, the newer one is a tool record and is marked.
C6_Witness ==
    /\ Called("cache_control")
    /\ \E i \in DOMAIN inp : Eligible(i) /\ ~AmongNewestEligible(i) /\ Carries(inp[i])
    /\ \E i \in DOMAIN inp : AmongNewestEligible(i) /\ inp[i].role = "tool"

\* --- C7 -----------------------------------------------------------------
\* a non-demo user record that shows numbered lines of a file
IsWindow(r) ==
    r.role = "user" /\ ~r.is_demo /\ IsStr(r) /\ HasNumberedLines(r) /\ HasFileLine(r)

WindowFile(r) ==
    LET t == TextOf(r)
        first == CHOOSE k \in DOMAIN t :
                    FilePatternGroup(t[k]) # "" /\ \A j \in 1..(k - 1) : FilePatternGroup(t[j]) = ""
    IN  FilePatternGroup(t[first])

Collapsed(r) ==
    LET t == TextOf(r)
        ms == {k \in DOMAIN t : MatchesPattern(t[k])}
        lo == CHOOSE k \in ms : \A j \in ms : k <= j
        hi == CHOOSE k \in ms : \A j \in ms : k >= j
    IN  [r EXCEPT !.content = StrContent(
            SubSeq(t, 1, lo - 1)
            \o <<"Outdated window with " \o ToString(Cardinality(ms)) \o " lines omitted...">>
            \o SubSeq(t, hi + 1, Len(t)))]

HasNewerWindow(i) ==
    \E j \in (i + 1)..Len(inp) : IsWindow(inp[j]) /\ WindowFile(inp[j]) = WindowFile(inp[i])

\* C7: after ClosedWindowHistoryProcessor the newest window of each file is
\* unchanged and every older window of the same file has the span from its
\* first to its last numbered line replaced by the "Outdated window" line
\* with the number of matched lines, the text before and after it kept.
C7_NewestWindowStaysOpen ==
    Called("closed_window") =>
        \A i \in DOMAIN inp :
            IsWindow(inp[i]) =>
                \E j \in DOMAIN out.hist :
                    out.hist[j] = IF HasNewerWindow(i) THEN Collapsed(inp[i]) ELSE inp[i]

\* Two windows of one file around a window of another file; the older one has
\* text before and after its numbered lines.
C7_Witness ==
    /\ Called("closed_window")
    /\ \E i, j, k \in DOMAIN inp :
          /\ i < k /\ k < j
          /\ IsWindow(inp[i]) /\ IsWindow(inp[j]) /\ IsWindow(inp[k])
          /\ WindowFile(inp[i]) = WindowFile(inp[j])
          /\ WindowFile(inp[k]) # WindowFile(inp[i])
          /\ TextOf(inp[i]) = WindowA
          /\ out.hist[i] # inp[i]

\* --- C8 -----------------------------------------------------------------
NumObservations(h) == Cardinality({i \in DOMAIN h : IsObservation(h[i])})

\* the records the last call elided
Elided(o, h) == {i \in DOMAIN o.hist : o.hist[i].content # h[i].content}

NumShown(o, h) == NumObservations(h) - Cardinality(Elided(o, h))

\* C8: with one LastNObservations called at every step on a history that
\* grows by appending untagged records, an elided record stays elided, the
\* set of elided records changes only at a step that brings the number of
\* non-demo observations to a multiple of polling, and the number of
\* observations shown is at least min(n, observations) and at most n + polling.
C8_BoundaryStable ==
    [][/\ out'.status = "ok"
       /\ Elided(out, inp) \subseteq Elided(out', inp')
       /\ Elided(out', inp') # Elided(out, inp) =>
             /\ NumObservations(inp') > NumObservations(inp)
             /\ NumObservations(inp') % proc.polling = 0
       /\ NumShown(out', inp') >= Min(proc.n, NumObservations(inp'))
       /\ NumShown(out', inp') <= proc.n + proc.polling]_vars

\* Between two advances of the cutoff, with a record elided and more than n
\* observations shown.
C8_Witness ==
    /\ Called("last_n_observations")
    /\ proc.polling > 1
    /\ NumObservations(inp) % proc.polling # 0
    /\ Elided(out, inp) # {}
    /\ NumShown(out, inp) > proc.n + 1

\* --- C9 -----------------------------------------------------------------
AllowedAt(text, k) ==
    /\ MatchAt(text, k)
    /\ (IF text[k + 4] = "image/jpg" THEN "image/jpeg" ELSE text[k + 4])
          \in proc.allowed_mime_types

\* where the images of allowed MIME type start, left to right
AllowedMatches(text) == SelectSeq(Indices(text), LAMBDA k : AllowedAt(text, k))

ImagesOf(r) == SelectSeq(r.content.items, LAMBDA seg : seg.type = "image_url")

NoAdjacentText(r) ==
    \A k \in 1..(Len(r.content.items) - 1) :
        ~(r.content.items[k].type = "text" /\ r.content.items[k + 1].type = "text")

\* The segments put together again: a text segment gives its text, an image
\* segment its url after the "data:" the markdown prefix ends with.
RECURSIVE Joined(_)
Joined(items) ==
    IF items = <<>> THEN <<>>
    ELSE (IF Head(items).type = "text" THEN Head(items).text ELSE Tail(Head(items).url))
         \o Joined(Tail(items))

\* the text with image/jpg written image/jpeg in the images of allowed type
JpegWritten(text) ==
    [k \in DOMAIN text |->
        IF k > 4 /\ AllowedAt(text, k - 4) /\ text[k] = "image/jpg"
        THEN "image/jpeg" ELSE text[k]]

UrlAsWritten(text, k) == SubSeq(text, k + 3, k + 6)

\* C9, with image/jpg expected as written or as image/jpeg
Segmented(asWritten) ==
    Called("image_parsing") =>
        \A i \in DOMAIN inp :
            LET r == inp[i]
                o == out.hist[i]
                ms == AllowedMatches(TextOf(r))
                whole == IF asWritten THEN TextOf(r) ELSE JpegWritten(TextOf(r))
            IN  IF r.role \notin {"user", "tool"} THEN o = r
                ELSE IF ms = <<>> THEN o = r
                ELSE /\ o.content.list
                     /\ o = [r EXCEPT !.content = o.content]
                     /\ Len(ImagesOf(o)) = Len(ms)
                     /\ \A j \in DOMAIN ms : ImagesOf(o)[j].url = UrlAsWritten(whole, ms[j])
                     /\ NoAdjacentText(o)
                     /\ Joined(o.content.items) = whole

\* C9 as claimed: a str without an image of allowed type is unchanged; else
\* the content is a list with one image segment per such image, in order,
\* no two text segments adjacent, every url the data URI exactly as written
\* (also for image/jpg), and the segments put together give the original
\* string; records of other roles are unchanged.
C9_SegmentsGiveOriginal == Segmented(TRUE)

\* C9 as amended: the same, with every url the data URI as written except
\* that image/jpg is written image/jpeg, and the segments put together giving
\* the original string with image/jpg written image/jpeg in those images.
C9_SegmentsGiveOriginalWithJpeg == Segmented(FALSE)

\* A record with text, then an image/jpg image, with the default MIME types.
C9_Witness ==
    /\ Called("image_parsing")
    /\ \E i \in DOMAIN inp :
          /\ inp[i].role \in {"user", "tool"}
          /\ TextOf(inp[i]) = <<"see ">> \o Markdown("image/jpg")
          /\ Len(ImagesOf(out.hist[i])) = 1

\* --- C10 ----------------------------------------------------------------
\* C10: every record LastNObservations decides to collapse is an observation,
\* so the call returns a history and never raises.
C10_CollapseErrorUnreachable ==
    proc.type = "last_n_observations" => out.status = "ok"

====
